---- MODULE Spec2Model ----
(***************************************************************************)
(* State stream of shinysdr/web.py: the per-session object registry        *)
(* (_StateStreamObjectRegistration, StateStreamInner), its reference       *)
(* counting, and the batching of outbound messages.                        *)
(*                                                                         *)
(* Every handler of the session (a poller callback, dataReceived, the      *)
(* flush timer, connectionLost) runs to completion on the reactor thread,  *)
(* so each is one action.  The handlers call each other recursively; the   *)
(* recursion is written with operators that take the session state as a    *)
(* record and return the state the Python code leaves behind.  An uncaught *)
(* Python exception is recorded in the field "failure"; every later step   *)
(* of the same call chain is skipped, as unwinding the stack skips it.     *)
(* URLs and cell descriptions are carried by register messages only and    *)
(* are read by nothing in the session, so messages omit them.              *)
(***************************************************************************)
EXTENDS Integers, Sequences, FiniteSets, TLC

\* ------------------------------------------------------------------ bounds
\* A handler that emits runs only while the batch holds at most MaxBatch
\* messages, and only if it leaves _lastSerial at most MaxSerial and at most
\* MaxCalls flush calls pending in the reactor.
MaxSerial == 10
MaxBatch == 0
MaxCalls == 1
\* Largest value a client asks for in a set command.
MaxCommandValue == 2
\* The pending flush calls a handler may leave under SpecTimers.
MaxTimers == 2

\* ------------------------------------------------------- the object graph
\* The session's own BlockCell (self._cell) and the object it returns.
RootCell == "root"
RootObject == "R"

Blocks == {"R", "X", "Y"}
\* Cells whose value is a plain number; only Ra has a setter.
ScalarCells == {"Ra", "Yg", "Yh"}
WritableCells == {"Ra"}
\* Cells whose isBlock() is true.
BlockCells == {"root", "Rb", "Xd"}
StreamCells == {"Rs"}
Cells == ScalarCells \cup BlockCells \cup StreamCells
Objects == Blocks \cup Cells

\* The range of a writable numeric cell: set() coerces into 0..MaxValue.
MaxValue == 1
Values == 0..MaxValue
Clamp(v) == IF v > MaxValue THEN MaxValue ELSE IF v < 0 THEN 0 ELSE v

\* The blocks a block cell can return.  X can hold itself, and X and Y can
\* be held by R and by X at once.
CellRange(c) ==
    CASE c = "root" -> {RootObject}
      [] c = "Rb" -> {"X", "Y"}
      [] c = "Xd" -> {"X", "Y"}

\* The cells state() can hold; Y is a dynamic block, whose child Yh comes
\* and goes, the others always hold all of theirs.
DynamicBlocks == {"Y"}
DynamicCells == {"Yh"}
ChildrenOf(b) ==
    CASE b = "R" -> {"Ra", "Rb", "Rs"}
      [] b = "X" -> {"Xd"}
      [] b = "Y" -> {"Yg", "Yh"}

\* The data chunks a StreamCell delivers.
StreamData == {7}

\* Python's dict iteration order is fixed for a given dict; keys are visited
\* in this order.
IterOrder == <<"value", "Ra", "Rb", "Rs", "Xd", "Yg", "Yh">>

\* list.sort() on objects without __cmp__ orders objects of different
\* classes by class name (BlockCell before Cell) and objects of one class by
\* address, which differs from run to run: a rank per object, open between
\* the two cells of Y.
AddrChoices ==
    { [o \in Objects |->
          CASE o \in BlockCells -> 1
            [] o = "Yg" -> 2
            [] o = "Yh" -> 3
            [] OTHER -> 4],
      [o \in Objects |->
          CASE o \in BlockCells -> 1
            [] o = "Yg" -> 3
            [] o = "Yh" -> 2
            [] OTHER -> 4] }

\* The orders sort() can produce: open only while both cells of Y are
\* registered, as no other two objects of one class are sorted together.
Orders(objs) ==
    IF {"Yg", "Yh"} \subseteq DOMAIN objs THEN AddrChoices
    ELSE { CHOOSE a \in AddrChoices : TRUE }

VARIABLES
    cellValue,          \* cell -> the value its get() returns
    blockState,         \* block -> the cell names its state() holds
    registrations,      \* serial -> _StateStreamObjectRegistration fields
    registered_objs,    \* StateStreamInner._registered_objs (object -> serial)
    registered_serials, \* keys of StateStreamInner.__registered_serials
    lastSerial,         \* StateStreamInner._lastSerial
    send_batch,         \* StateStreamInner._send_batch
    batch_delay,        \* StateStreamInner.__batch_delay
    delayed_calls,      \* reactor: callLater(0, _flush) calls not yet run
    wire,               \* frames the step just taken handed to self._send
    sent,               \* values the step just taken handed to _send1
    balance,            \* object -> register_* messages minus delete messages
    announced,          \* serials named by a register_* message so far
    deleted,            \* serials named by a delete message so far
    failure,            \* the exception that left a handler, or "none"
    closed              \* connectionLost has run

\* The persistence glue (shinysdr.i.persistence) and the root object it keeps.
VARIABLES
    specimenValue,      \* ValueAndBlockSpecimen -> what its get_value() returns
    mutations,          \* set_value calls the next notification cycle delivers
    delivered,          \* set_value calls the cycle just run delivered
    detector,           \* PersistenceChangeDetector: cached Snapshot, armed
    calls,              \* invocations of the detector's callback so far
    got,                \* what get() returned to the step just taken, if called
    state_file,         \* the persisted state file
    write_scheduled,    \* the delayed write calls pending in the reactor
    sync_waiting,       \* a Deferred returned by sync() has not fired
    sync_resolved,      \* the step just taken fired the Deferred of sync()
    defaults,           \* what get_defaults returned at startup
    started             \* the step just taken constructed the glue

\* The audio stream (AudioStreamInner), its reader thread and the reactor.
VARIABLES
    queue,              \* AudioStreamInner._queue: the messages' payloads
    running,            \* AudioStreamInner.__running[0]
    attached,           \* the block holds the queue (add/remove_audio_queue)
    reader,             \* where the thread of _AudioStream_read_loop stands
    buf,                \* buf of _AudioStream_read_loop
    thread_calls,       \* reactor: callFromThread(deliver, buf) not yet run
    audio_sent,         \* the buffers __deliver has passed to self._send
    dequeued,           \* the payloads delete_head has returned, in order
    produced,           \* messages the block has put on the queue so far
    lost                \* how far connectionLost of the audio stream has got

stream == <<cellValue, blockState, registrations, registered_objs,
            registered_serials, lastSerial, send_batch, batch_delay,
            delayed_calls, wire, sent, balance, announced, deleted, failure,
            closed>>

persistence == <<specimenValue, mutations, delivered, detector, calls, got,
                 state_file, write_scheduled, sync_waiting, sync_resolved,
                 defaults, started>>

audio == <<queue, running, attached, reader, buf, thread_calls, audio_sent,
           dequeued, produced, lost>>

vars == <<stream, persistence, audio>>

world == <<cellValue, blockState>>

\* ---------------------------------------------------------------- helpers
NoneDict == [k \in {} |-> 0]
Dict1(v) == [k \in {"value"} |-> v]
Keys(d) == SelectSeq(IterOrder, LAMBDA k : k \in DOMAIN d)

RECURSIVE ValuesOf(_, _)
ValuesOf(d, keys) ==
    IF keys = <<>> THEN <<>> ELSE <<d[Head(keys)]>> \o ValuesOf(d, Tail(keys))

RECURSIVE InsertSorted(_, _, _)
InsertSorted(a, x, s) ==
    IF s = <<>> THEN <<x>>
    ELSE IF a[x] < a[Head(s)] THEN <<x>> \o s
    ELSE <<Head(s)>> \o InsertSorted(a, x, Tail(s))

RECURSIVE SortRefs(_, _)
SortRefs(a, s) ==
    IF s = <<>> THEN <<>> ELSE InsertSorted(a, Head(s), SortRefs(a, Tail(s)))

\* refs = previous_value.values(); refs.sort()
SortedValues(w, d) == SortRefs(w.addr, ValuesOf(d, Keys(d)))

\* The third element of a message: a number, one serial, or a dict of serials.
ScalarPayload(v) == [scalar |-> v, refs |-> NoneDict, single |-> FALSE]
RefPayload(serials, is_single) ==
    [scalar |-> 0, refs |-> serials, single |-> is_single]

TextFrame(batch) == [binary |-> FALSE, msgs |-> batch]
BinaryFrame(value) == [binary |-> TRUE, msgs |-> <<value>>]

\* What the handlers read of the objects: values, states and the order that
\* sort() puts objects in.
World(a) == [value |-> cellValue, state |-> blockState, addr |-> a]
StateOf(w, b) == [k \in w.state[b] |-> k]

NewRegistration(obj, serial, refcount) ==
    [obj |-> obj, serial |-> serial, refcount |-> refcount,
     has_previous_value |-> FALSE, previous_value |-> NoneDict,
     value_is_references |-> FALSE, dead |-> FALSE, subscribed |-> TRUE]

\* The session as a handler finds it; wire and sent collect what it emits.
Session ==
    [regs |-> registrations, objs |-> registered_objs,
     serials |-> registered_serials, lastSerial |-> lastSerial,
     batch |-> send_batch, batch_delay |-> batch_delay,
     calls |-> delayed_calls, wire |-> <<>>, sent |-> <<>>,
     failure |-> failure]

RegisterOps == {"register_cell", "register_block", "register"}

\* Serials the messages of msgs name with an op of ops.
SerialsNamed(msgs, ops) ==
    { msgs[i][2] : i \in { j \in 1..Len(msgs) : msgs[j][1] \in ops } }

\* How often msgs names object o with an op of ops (regs gives each serial's
\* object).
CountFor(msgs, regs, ops, o) ==
    Cardinality({ i \in 1..Len(msgs) :
                    msgs[i][1] \in ops /\ regs[msgs[i][2]].obj = o })

\* The bookkeeping of what has been emitted, after the messages of st.sent.
Emitted(bal, st) ==
    [o \in Objects |->
        bal[o] + CountFor(st.sent, st.regs, RegisterOps, o)
               - CountFor(st.sent, st.regs, {"delete"}, o)]

Becomes(st) ==
    /\ registrations' = st.regs
    /\ registered_objs' = st.objs
    /\ registered_serials' = st.serials
    /\ lastSerial' = st.lastSerial
    /\ send_batch' = st.batch
    /\ batch_delay' = st.batch_delay
    /\ delayed_calls' = st.calls
    /\ wire' = st.wire
    /\ sent' = st.sent
    /\ balance' = Emitted(balance, st)
    /\ announced' = announced \cup SerialsNamed(st.sent, RegisterOps)
    /\ deleted' = deleted \cup SerialsNamed(st.sent, {"delete"})
    /\ failure' = st.failure
    /\ UNCHANGED <<persistence, audio>>

Failed(st) == st.failure # "none"
Raise(st, e) == [st EXCEPT !.failure = e]

\* ------------------------------------------------- StateStreamInner: send
\* _flush that forgets "self._send_batch = []".
Flush_KeepBatch(st) ==
    [st EXCEPT !.batch_delay = "None",
               !.wire = IF Len(st.batch) > 0
                        THEN Append(@, TextFrame(st.batch)) ELSE @]

Flush(st) ==
    [st EXCEPT !.batch_delay = "None",
               !.wire = IF Len(st.batch) > 0
                        THEN Append(@, TextFrame(st.batch)) ELSE @,
               !.batch = <<>>]

\* _send1 that batches without scheduling the flush.
Send1_Unscheduled(st, binary, value) ==
    IF binary
    THEN LET f == Flush(st)
         IN [f EXCEPT !.wire = Append(@, BinaryFrame(value)),
                      !.sent = Append(@, value)]
    ELSE [st EXCEPT !.batch = Append(@, value),
                    !.sent = Append(@, value)]

\* _send1 whose binary branch forgets "self._flush()".
Send1_Unordered(st, binary, value) ==
    IF binary
    THEN [st EXCEPT !.wire = Append(@, BinaryFrame(value)),
                    !.sent = Append(@, value)]
    ELSE [st EXCEPT !.batch = Append(@, value),
                    !.sent = Append(@, value),
                    !.batch_delay = "DelayedCall",
                    !.calls = IF st.batch_delay = "None" THEN @ + 1 ELSE @]

Send1(st, binary, value) ==
    IF binary
    THEN LET f == Flush(st)
         IN [f EXCEPT !.wire = Append(@, BinaryFrame(value)),
                      !.sent = Append(@, value)]
    ELSE [st EXCEPT !.batch = Append(@, value),
                    !.sent = Append(@, value),
                    !.batch_delay = "DelayedCall",
                    !.calls = IF st.batch_delay = "None" THEN @ + 1 ELSE @]

\* ------------------------------------------------------------ registration
\* Then(v, LAMBDA x : e) is e with x standing for the value of v: one
\* statement's result handed to the statements after it.
Then(v, F(_)) == F(v)

SetPrevious(st, s, value, is_references) ==
    IF is_references /\ \E k \in DOMAIN value : value[k] \notin DOMAIN st.objs
    THEN Raise(st, "previous value not registered")
    ELSE [st EXCEPT !.regs[s].has_previous_value = TRUE,
                    !.regs[s].previous_value = value,
                    !.regs[s].value_is_references = is_references]

\* __maybesend without the comparison with previous_value.
Maybesend_Always(st, s, compare_value, update_value) ==
    Send1(SetPrevious(st, s, Dict1(compare_value), FALSE), FALSE,
          <<"value", s, ScalarPayload(update_value)>>)

Maybesend(st, s, compare_value, update_value) ==
    IF \/ ~st.regs[s].has_previous_value
       \/ compare_value # st.regs[s].previous_value["value"]
    THEN Send1(SetPrevious(st, s, Dict1(compare_value), FALSE), FALSE,
               <<"value", s, ScalarPayload(update_value)>>)
    ELSE st

\* inc_refcount without the check of __dead.
IncRefcount_Dead(st, s) == [st EXCEPT !.regs[s].refcount = @ + 1]

IncRefcount(st, s) ==
    IF st.regs[s].dead THEN Raise(st, "incing dead reference")
    ELSE [st EXCEPT !.regs[s].refcount = @ + 1]

RECURSIVE IncEach(_, _)
IncEach(st, serials) ==
    IF serials = <<>> \/ Failed(st) THEN st
    ELSE IncEach(IncRefcount(st, Head(serials)), Tail(serials))

\* registration.drop(); del self.__registered_serials[registration.serial];
\* del self._registered_objs[obj]
DropSerial(st, obj, s) ==
    IF s \notin st.serials
    THEN Raise([st EXCEPT !.regs[s].subscribed = FALSE], "KeyError")
    ELSE [st EXCEPT !.regs[s].subscribed = FALSE,
                    !.serials = @ \ {s},
                    !.objs = [o \in (DOMAIN @) \ {obj} |-> @[o]]]

Drop(st, obj) ==
    IF obj \notin DOMAIN st.objs THEN Raise(st, "KeyError")
    ELSE DropSerial(st, obj, st.objs[obj])

\* do_delete that drops without sending the delete message.
DoDelete_Silent(st, s) == Drop(st, st.regs[s].obj)

DoDelete(st, s) ==
    Drop(Send1(st, FALSE, <<"delete", s>>), st.regs[s].obj)

RECURSIVE DecRefcountAndMaybeNotify(_, _, _)
RECURSIVE DecEach(_, _, _, _)

\* dec_refcount_and_maybe_notify without the loop over refs.
ClearAndDecRefs_NoCascade(st, w, s) ==
    IF Failed(st) THEN st
    ELSE [st EXCEPT !.regs[s].previous_value = NoneDict,
                    !.regs[s].has_previous_value = FALSE,
                    !.regs[s].value_is_references = FALSE]

\* The part of dec_refcount_and_maybe_notify after do_delete has returned.
ClearAndDecRefs(st, w, s) ==
    IF Failed(st) THEN st
    ELSE DecEach([st EXCEPT !.regs[s].previous_value = NoneDict,
                            !.regs[s].has_previous_value = FALSE,
                            !.regs[s].value_is_references = FALSE],
                 w,
                 IF st.regs[s].value_is_references
                 THEN SortedValues(w, st.regs[s].previous_value)
                 ELSE <<>>,
                 "KeyError")

DecRefcountAndMaybeNotify(st, w, s) ==
    IF st.regs[s].dead THEN Raise(st, "decing dead reference")
    ELSE IF st.regs[s].refcount - 1 # 0
    THEN [st EXCEPT !.regs[s].refcount = @ - 1]
    ELSE ClearAndDecRefs(DoDelete([st EXCEPT !.regs[s].refcount = @ - 1,
                                             !.regs[s].dead = TRUE], s),
                         w, s)

\* for obj in refs: self.__ssi._registered_objs[obj].dec_refcount_and_maybe_notify()
\* "missing" is what the lookup of an unregistered object raises at this place.
DecEach(st, w, refs, missing) ==
    IF refs = <<>> \/ Failed(st) THEN st
    ELSE IF Head(refs) \notin DOMAIN st.objs THEN Raise(st, missing)
    ELSE DecEach(DecRefcountAndMaybeNotify(st, w, st.objs[Head(refs)]),
                 w, Tail(refs), missing)

RECURSIVE LookupOrRegister(_, _, _)
RECURSIVE SendNowIfNeeded(_, _, _)
RECURSIVE ListenCell(_, _, _)
RECURSIVE ListenState(_, _, _, _)
RECURSIVE MaybesendReference(_, _, _, _, _)
RECURSIVE RegisterEach(_, _, _, _, _)

\* registrations = {k: self.__ssi._lookup_or_register(v, ...) for k, v in objs.iteritems()}
\* Returns the state and the dict key -> serial of the Registration returned.
RegisterEach(st, w, keys, objs, acc) ==
    IF keys = <<>> \/ Failed(st) THEN [st |-> st, serials |-> acc]
    ELSE Then(LookupOrRegister(st, w, objs[Head(keys)]), LAMBDA st1 :
           RegisterEach(st1, w, Tail(keys), objs,
                        IF Failed(st1) THEN acc
                        ELSE acc @@ (Head(keys) :> st1.objs[objs[Head(keys)]])))

\* __maybesend_reference that never releases the old references.
DecPrevious_Skip(st, w, s) == st

\* The statements of __maybesend_reference under "if self.has_previous_value":
\* the old references are released.
DecPrevious(st, w, s) ==
    IF Failed(st) \/ ~st.regs[s].has_previous_value THEN st
    ELSE DecEach(st, w, SortedValues(w, st.regs[s].previous_value),
                 "previous value not registered")

\* The body of "if objs != self.previous_value" that releases the old
\* references before it sends the value.
SendReference_ReleaseFirst(st, w, s, objs, serials, is_single) ==
    Then(IncEach(st, ValuesOf(serials, Keys(serials))), LAMBDA st2 :
      IF Failed(st2) THEN st2
      ELSE Then(DecPrevious(st2, w, s), LAMBDA st3 :
             IF Failed(st3) THEN st3
             ELSE SetPrevious(Send1(st3, FALSE,
                                    <<"value", s,
                                      RefPayload(serials, is_single)>>),
                              s, objs, TRUE)))

\* The body of "if objs != self.previous_value", over the serials of the
\* Registrations looked up.
SendReference(st, w, s, objs, serials, is_single) ==
    Then(IncEach(st, ValuesOf(serials, Keys(serials))), LAMBDA st2 :
      IF Failed(st2) THEN st2
      ELSE Then(DecPrevious(Send1(st2, FALSE,
                                  <<"value", s, RefPayload(serials, is_single)>>),
                            w, s),
                LAMBDA st4 :
                  IF Failed(st4) THEN st4 ELSE SetPrevious(st4, s, objs, TRUE)))

MaybesendReference(st, w, s, objs, is_single) ==
    Then(RegisterEach(st, w, Keys(objs), objs, NoneDict), LAMBDA r :
      IF Failed(r.st) THEN r.st
      ELSE IF \/ ~r.st.regs[s].has_previous_value
              \/ objs # r.st.regs[s].previous_value
      THEN SendReference(r.st, w, s, objs, r.serials, is_single)
      ELSE r.st)

\* __listen_cell without "if self.__dead: return".
ListenCell_Undead(st, w, s) ==
    IF st.regs[s].obj \in StreamCells THEN Raise(st, "StreamCell here")
    ELSE IF st.regs[s].obj \in BlockCells
    THEN Then(LookupOrRegister(st, w, w.value[st.regs[s].obj]), LAMBDA st1 :
           IF Failed(st1) THEN st1
           ELSE MaybesendReference(st1, w, s,
                                   Dict1(w.value[st.regs[s].obj]), TRUE))
    ELSE Maybesend(st, s, w.value[st.regs[s].obj], w.value[st.regs[s].obj])

ListenCell(st, w, s) ==
    IF st.regs[s].dead THEN st
    ELSE IF st.regs[s].obj \in StreamCells THEN Raise(st, "StreamCell here")
    ELSE IF st.regs[s].obj \in BlockCells
    THEN Then(LookupOrRegister(st, w, w.value[st.regs[s].obj]), LAMBDA st1 :
           IF Failed(st1) THEN st1
           ELSE MaybesendReference(st1, w, s,
                                   Dict1(w.value[st.regs[s].obj]), TRUE))
    ELSE Maybesend(st, s, w.value[st.regs[s].obj], w.value[st.regs[s].obj])

ListenBinaryStream(st, s, value) ==
    IF st.regs[s].dead THEN st
    ELSE Send1(st, TRUE, <<"binary", s, ScalarPayload(value)>>)

ListenState(st, w, s, state) ==
    IF st.regs[s].dead THEN st
    ELSE MaybesendReference(st, w, s, state, FALSE)

SendNowIfNeeded(st, w, s) ==
    IF st.regs[s].obj \in StreamCells THEN st
    ELSE IF st.regs[s].obj \in Cells THEN ListenCell(st, w, s)
    ELSE ListenState(st, w, s, StateOf(w, st.regs[s].obj))

\* The register message alone, set_previous left out.
Announce_Plain(st, w, obj, serial) ==
    IF obj \in Cells
    THEN Send1(st, FALSE, <<"register_cell", serial>>)
    ELSE Send1(st, FALSE, <<"register_block", serial>>)

\* _StateStreamObjectRegistration.__init__ for the object just entered in the
\* tables under serial: the register message and, for a plain cell,
\* set_previous of its current value.
Announce(st, w, obj, serial) ==
    IF obj \in Cells
    THEN IF obj \in StreamCells \/ obj \in BlockCells
         THEN Send1(st, FALSE, <<"register_cell", serial>>)
         ELSE SetPrevious(Send1(st, FALSE, <<"register_cell", serial>>),
                          serial, Dict1(w.value[obj]), FALSE)
    ELSE Send1(st, FALSE, <<"register_block", serial>>)

\* serial = len(self.__registered_serials) in place of self._lastSerial + 1.
NextSerial_Count(st) == Cardinality(st.serials)

\* serial = self._lastSerial, the increment forgotten.
NextSerial_Same(st) == st.lastSerial

\* The serial the next Registration is given.
NextSerial(st) == st.lastSerial + 1

\* The tables after "self._lastSerial = serial; ... = registration".
Enter(st, obj, serial) ==
    [st EXCEPT !.lastSerial = serial,
               !.regs = (serial :> NewRegistration(obj, serial, 0)) @@ @,
               !.objs = (obj :> serial) @@ @,
               !.serials = @ \cup {serial}]

\* _lookup_or_register that counts a reference on every lookup that hits.
LookupOrRegister_Inc(st, w, obj) ==
    IF obj \in DOMAIN st.objs THEN IncRefcount(st, st.objs[obj])
    ELSE Then(Announce(Enter(st, obj, NextSerial(st)), w, obj, NextSerial(st)),
              LAMBDA st2 :
                IF Failed(st2) THEN st2
                ELSE SendNowIfNeeded(st2, w, NextSerial(st)))

LookupOrRegister(st, w, obj) ==
    IF obj \in DOMAIN st.objs THEN st
    ELSE Then(Announce(Enter(st, obj, NextSerial(st)), w, obj, NextSerial(st)),
              LAMBDA st2 :
                IF Failed(st2) THEN st2
                ELSE SendNowIfNeeded(st2, w, NextSerial(st)))

\* ------------------------------------------------------------------- Init
\* StateStreamInner.__init__ over the root object R, whose cell Rb returns X,
\* which holds itself through its cell Xd; Y and its cells are not reachable
\* yet.
InitSession ==
    [regs |-> (0 :> NewRegistration(RootCell, 0, 0)),
     objs |-> (RootCell :> 0),
     serials |-> {0},
     lastSerial |-> 0,
     batch |-> <<>>, batch_delay |-> "None", calls |-> 0,
     wire |-> <<>>, sent |-> <<>>, failure |-> "none"]

InitialValues(ra, rb, xd) ==
    [c \in Cells \ StreamCells |->
        CASE c = "root" -> RootObject
          [] c = "Rb" -> rb
          [] c = "Xd" -> xd
          [] c = "Ra" -> ra
          [] OTHER -> 0]

Starts(st) ==
    /\ registrations = st.regs
    /\ registered_objs = st.objs
    /\ registered_serials = st.serials
    /\ lastSerial = st.lastSerial
    /\ send_batch = st.batch
    /\ batch_delay = st.batch_delay
    /\ delayed_calls = st.calls
    /\ wire = st.wire
    /\ sent = st.sent
    /\ balance = Emitted([o \in Objects |-> 0], st)
    /\ announced = SerialsNamed(st.sent, RegisterOps)
    /\ deleted = SerialsNamed(st.sent, {"delete"})
    /\ failure = st.failure

\* ------------------------------------------------------------- persistence
\* The root object of the persistence tests: a ValueAndBlockSpecimen "o"
\* whose block cell holds a ValueAndBlockSpecimen "n", whose block cell holds
\* an object without cells.  Each has one settable cell, value.
Specimens == {"o", "n"}
FreshValues == [s \in Specimens |-> 0]

\* Bounds of the persistence model.
MaxMutations == 2
MaxCallbackCalls == 2

\* The Snapshot of specimen s: cell name -> value, or -> the Snapshot of the
\* block a block cell holds.
RECURSIVE Snapshot(_, _)
Snapshot(vals, s) ==
    [value |-> vals[s],
     block |-> IF s = "o" THEN Snapshot(vals, "n") ELSE NoneDict]

\* A detector as constructed: subscribed to everything reachable.
NewDetector(snapshot) == [cache |-> snapshot, armed |-> TRUE]

\* The detector's step of a notification cycle without the rule that the
\* callback waits for get().
Notify_Rearmed(d, snapshot) ==
    IF snapshot # d.cache
    THEN [cache |-> snapshot, armed |-> FALSE, fired |-> TRUE]
    ELSE [cache |-> d.cache, armed |-> d.armed, fired |-> FALSE]

\* The detector's step of a notification cycle: recompute, compare with the
\* cached Snapshot, replace it, and invoke the callback if none was invoked
\* since the last get().
Notify(d, snapshot) ==
    IF snapshot # d.cache
    THEN [cache |-> snapshot, armed |-> FALSE, fired |-> d.armed]
    ELSE [cache |-> d.cache, armed |-> d.armed, fired |-> FALSE]

\* get() that returns the Snapshot cached by the last notification cycle.
Get_Cached(d, snapshot) == [cache |-> d.cache, armed |-> TRUE]

\* get(): the current Snapshot, which becomes the cached one; the callback
\* may be invoked again.
Get(d, snapshot) == [cache |-> snapshot, armed |-> TRUE]

\* The state file: absent, or holding one serialized mapping.
NoFile == [exists |-> FALSE, content |-> NoneDict]
\* A write that leaves the file opened for writing and empty.
Written_Empty(mapping) == [exists |-> TRUE, content |-> NoneDict]

Written(mapping) == [exists |-> TRUE, content |-> mapping]
ReadFile(file) == IF file.exists THEN file.content ELSE NoneDict

\* The files a session may find at startup and the mappings get_defaults may
\* return; "gone" and "bogus" name no cell.
InitialFiles ==
    {NoFile, Written([value |-> 0, gone |-> 1]),
     Written([value |-> 1, block |-> [value |-> 1, block |-> NoneDict]])}
DefaultsChoices ==
    {NoneDict, [value |-> 1], [bogus |-> 1, block |-> [value |-> 1]]}

\* The merge with the defaults on top.
Merge_DefaultsWin(defs, persisted) ==
    [k \in DOMAIN defs \cup DOMAIN persisted |->
        IF k \in DOMAIN defs THEN defs[k] ELSE persisted[k]]

\* The defaults beneath the persisted mapping.
Merge(defs, persisted) ==
    [k \in DOMAIN defs \cup DOMAIN persisted |->
        IF k \in DOMAIN persisted THEN persisted[k] ELSE defs[k]]

\* The mapping applied to specimen s: the settable cell takes its value, the
\* block cell hands its mapping to the block it holds, other keys are skipped.
RECURSIVE StateFromJson(_, _, _)
StateFromJson(vals, s, mapping) ==
    Then(IF "value" \in DOMAIN mapping
         THEN [vals EXCEPT ![s] = mapping["value"]] ELSE vals,
         LAMBDA v1 :
           IF "block" \in DOMAIN mapping /\ s = "o"
           THEN StateFromJson(v1, "n", mapping["block"]) ELSE v1)

\* What the cells of a fresh root object hold once the glue is constructed.
Startup(file, defs) ==
    StateFromJson(FreshValues, "o", Merge(defs, ReadFile(file)))

\* The callback of the glue's detector that writes at once.
WriteLater_Now(file, scheduled, snapshot) ==
    [file |-> Written(snapshot), scheduled |-> scheduled]

\* The callback of the glue's detector that schedules a write every time.
WriteLater_Always(file, scheduled, snapshot) ==
    [file |-> file, scheduled |-> scheduled + 1]

\* The callback of the glue's detector: a delayed write is scheduled unless
\* one is pending.
WriteLater(file, scheduled, snapshot) ==
    [file |-> file, scheduled |-> IF scheduled > 0 THEN scheduled ELSE 1]

\* The glue as constructed over a fresh root object, file and defaults.
StartsGlue(file, defs) ==
    /\ state_file = file
    /\ defaults = defs
    /\ specimenValue = Startup(file, defs)
    /\ detector = NewDetector(Snapshot(Startup(file, defs), "o"))
    /\ mutations = 0
    /\ delivered = 0
    /\ calls = 0
    /\ got = <<>>
    /\ write_scheduled = 0
    /\ sync_waiting = FALSE
    /\ sync_resolved = FALSE
    /\ started = TRUE

InitStream ==
    /\ cellValue = InitialValues(0, "X", "X")
    /\ blockState = [b \in Blocks |-> ChildrenOf(b) \ DynamicCells]
    /\ closed = FALSE
    /\ Starts(SendNowIfNeeded(InitSession,
                              World(CHOOSE a \in AddrChoices : TRUE), 0))

\* AudioStreamInner as constructed: the queue is empty and handed to the
\* block, and the reader thread is about to enter its loop.  (The channel
\* count the constructor sends is text, not a buffer of the queue.)
StartsAudio ==
    /\ queue = <<>>
    /\ running = TRUE
    /\ attached = TRUE
    /\ reader = "while"
    /\ buf = <<>>
    /\ thread_calls = <<>>
    /\ audio_sent = <<>>
    /\ dequeued = <<>>
    /\ produced = 0
    /\ lost = "no"

Init == InitStream /\ StartsGlue(NoFile, NoneDict) /\ StartsAudio

\* ------------------------------------------------------------ environment
Open == ~closed /\ failure = "none"
\* The bounds of the model on the handlers that emit.
Within(st) ==
    /\ Len(send_batch) <= MaxBatch
    /\ st.lastSerial <= MaxSerial
    /\ st.calls <= MaxCalls

\* A handler runs within the bounds and leaves the session as st.
Handles(st) == Within(st) /\ Becomes(st)

\* Outside the session's handlers nothing is emitted.
Quiet ==
    /\ wire' = <<>>
    /\ sent' = <<>>
    /\ UNCHANGED <<registrations, registered_objs, registered_serials,
                   lastSerial, send_batch, batch_delay, delayed_calls,
                   balance, announced, deleted, failure, closed>>
    /\ UNCHANGED <<persistence, audio>>

\* A numeric cell takes another value (a PUT on its CellResource, or the
\* engine itself); the session learns of it from the poller.
CellChanges(c, v) ==
    /\ Open
    /\ v # cellValue[c]
    /\ cellValue' = [cellValue EXCEPT ![c] = v]
    /\ UNCHANGED blockState
    /\ Quiet

\* A block cell starts returning another block.
BlockCellChanges(c, b) ==
    /\ Open
    /\ b # cellValue[c]
    /\ cellValue' = [cellValue EXCEPT ![c] = b]
    /\ UNCHANGED blockState
    /\ Quiet

\* A dynamic block gains or loses a child (POST / DELETE on its BlockResource).
CreateChild(b, k) ==
    /\ Open
    /\ k \notin blockState[b]
    /\ blockState' = [blockState EXCEPT ![b] = @ \cup {k}]
    /\ UNCHANGED cellValue
    /\ Quiet

DeleteChild(b, k) ==
    /\ Open
    /\ k \in blockState[b]
    /\ blockState' = [blockState EXCEPT ![b] = @ \ {k}]
    /\ UNCHANGED cellValue
    /\ Quiet

\* ------------------------------------------------------- poller callbacks
\* The poller calls the callback a Registration subscribed with.  A callback
\* that finds nothing changed does nothing, so calling it at any time covers
\* every schedule of the poller.
PollCell(s, a) ==
    /\ Open
    /\ registrations[s].subscribed
    /\ registrations[s].obj \in Cells \ StreamCells
    /\ Handles(ListenCell(Session, World(a), s))
    /\ UNCHANGED <<world, closed>>

PollState(s, a) ==
    /\ Open
    /\ registrations[s].subscribed
    /\ registrations[s].obj \in Blocks
    /\ Handles(ListenState(Session, World(a), s,
                           StateOf(World(a), registrations[s].obj)))
    /\ UNCHANGED <<world, closed>>

PollStream(s, d) ==
    /\ Open
    /\ registrations[s].subscribed
    /\ registrations[s].obj \in StreamCells
    /\ Becomes(ListenBinaryStream(Session, s, d))
    /\ UNCHANGED <<world, closed>>

\* ----------------------------------------------------------- dataReceived
\* cell.set(value): the setter of a writable numeric cell stores the coerced
\* value; every other cell refuses.
CellSet(w, cell, value) ==
    [w EXCEPT !.value[cell] = Clamp(value)]

\* Returns the session state and the world the call leaves behind.
\* The 'done' message, unless the call before it raised.
Done(st, message_id) ==
    IF Failed(st) THEN st ELSE Send1(st, FALSE, <<"done", message_id>>)

\* dataReceived that acknowledges before it looks at the cell again.
SetCommand_DoneFirst(st, w, serial, value, message_id) ==
    IF serial \notin st.serials
    THEN [st |-> Raise(st, "KeyError"), w |-> w]
    ELSE IF st.regs[serial].obj \notin Cells
    THEN [st |-> Raise(st, "This object is not a cell"), w |-> w]
    ELSE IF st.regs[serial].obj \notin WritableCells
    THEN [st |-> Raise(st, "not writable"), w |-> w]
    ELSE Then(CellSet(w, st.regs[serial].obj, value), LAMBDA w1 :
           [st |-> SendNowIfNeeded(Done(st, message_id), w1, serial),
            w |-> w1])

\* if command[0] == 'set': with serial, value, message_id the other elements.
SetCommand(st, w, serial, value, message_id) ==
    IF serial \notin st.serials
    THEN [st |-> Raise(st, "KeyError"), w |-> w]
    ELSE IF st.regs[serial].obj \notin Cells
    THEN [st |-> Raise(st, "This object is not a cell"), w |-> w]
    ELSE IF st.regs[serial].obj \notin WritableCells
    THEN [st |-> Raise(st, "not writable"), w |-> w]
    ELSE Then(CellSet(w, st.regs[serial].obj, value), LAMBDA w1 :
           [st |-> Done(SendNowIfNeeded(st, w1, serial), message_id),
            w |-> w1])

DataReceivedResult(st, w, command) ==
    IF command[1] # "set" THEN [st |-> st, w |-> w]
    ELSE SetCommand(st, w, command[2], command[3], command[4])

\* What a client sends: a set of a writable cell to any value; a set of any
\* numeric cell, of the root object or of a serial not in use; or an op that
\* is no set.
CommandSerials ==
    { s \in registered_serials : registrations[s].obj \in ScalarCells }

Commands ==
    { <<"set", serial, value, 1>> :
        serial \in { s \in CommandSerials :
                       registrations[s].obj \in WritableCells },
        value \in 0..MaxCommandValue }
    \cup { <<"set", serial, 0, 1>> :
             serial \in CommandSerials \cup {1, lastSerial + 1} }
    \cup { <<"noop">> }

DataReceived(command) ==
    /\ Open
    /\ Then(DataReceivedResult(Session,
                               World(CHOOSE a \in AddrChoices : TRUE),
                               command),
            LAMBDA r : Handles(r.st) /\ cellValue' = r.w.value)
    /\ UNCHANGED <<blockState, closed>>

\* ------------------------------------------------------------ flush timer
\* The reactor runs one of the pending callLater(0, self._flush) calls.
FlushTimer ==
    /\ delayed_calls > 0
    /\ Becomes([Flush(Session) EXCEPT !.calls = @ - 1])
    /\ UNCHANGED <<world, closed>>

\* --------------------------------------------------------- connectionLost
RECURSIVE DropEach(_, _)
DropEach(st, objs) ==
    IF objs = <<>> \/ Failed(st) THEN st
    ELSE DropEach(Drop(st, Head(objs)), Tail(objs))

ObjOrder == <<"root", "R", "Ra", "Rb", "Rs", "X", "Xd", "Y", "Yg", "Yh">>

\* connectionLost that drops the root Registration only.
ConnectionLostResult_RootOnly(st) == Drop(st, RootCell)

ConnectionLostResult(st) ==
    Then(DropEach([st EXCEPT !.failure = "none"],
                  SelectSeq(ObjOrder, LAMBDA o : o \in DOMAIN st.objs)),
         LAMBDA st1 :
           IF Failed(st1) THEN st1 ELSE [st1 EXCEPT !.failure = st.failure])

ConnectionLost ==
    /\ ~closed
    /\ Becomes(ConnectionLostResult(Session))
    /\ closed' = TRUE
    /\ UNCHANGED world

Next ==
    \/ \E c \in WritableCells, v \in Values : CellChanges(c, v)
    \/ \E c \in BlockCells \ {RootCell}, b \in Blocks :
          b \in CellRange(c) /\ BlockCellChanges(c, b)
    \/ \E b \in DynamicBlocks, k \in DynamicCells :
          k \in ChildrenOf(b) /\ CreateChild(b, k)
    \/ \E b \in DynamicBlocks, k \in DynamicCells : DeleteChild(b, k)
    \/ \E s \in DOMAIN registrations, a \in Orders(registered_objs) :
          PollCell(s, a)
    \/ \E s \in DOMAIN registrations, a \in Orders(registered_objs) :
          PollState(s, a)
    \/ \E s \in DOMAIN registrations, d \in StreamData : PollStream(s, d)
    \/ \E command \in Commands : DataReceived(command)
    \/ FlushTimer
    \/ ConnectionLost

Spec == Init /\ [][Next]_vars

\* ------------------------------------------------- the reactor's flush calls
\* The same session with room for a second pending callLater(0, self._flush):
\* the handlers that send text run while they leave at most MaxTimers calls.
HandlesTimers(st) ==
    /\ Len(send_batch) <= MaxBatch
    /\ st.lastSerial <= MaxSerial
    /\ st.calls <= MaxTimers
    /\ Becomes(st)

TimersPollCell(s, a) ==
    /\ Open
    /\ registrations[s].subscribed
    /\ registrations[s].obj \in Cells \ StreamCells
    /\ HandlesTimers(ListenCell(Session, World(a), s))
    /\ UNCHANGED <<world, closed>>

TimersPollState(s, a) ==
    /\ Open
    /\ registrations[s].subscribed
    /\ registrations[s].obj \in Blocks
    /\ HandlesTimers(ListenState(Session, World(a), s,
                                 StateOf(World(a), registrations[s].obj)))
    /\ UNCHANGED <<world, closed>>

TimersDataReceived(command) ==
    /\ Open
    /\ Then(DataReceivedResult(Session,
                               World(CHOOSE a \in AddrChoices : TRUE),
                               command),
            LAMBDA r : HandlesTimers(r.st) /\ cellValue' = r.w.value)
    /\ UNCHANGED <<blockState, closed>>

NextTimers ==
    \/ \E c \in WritableCells, v \in Values : CellChanges(c, v)
    \/ \E c \in BlockCells \ {RootCell}, b \in Blocks :
          b \in CellRange(c) /\ BlockCellChanges(c, b)
    \/ \E b \in DynamicBlocks, k \in DynamicCells :
          k \in ChildrenOf(b) /\ CreateChild(b, k)
    \/ \E b \in DynamicBlocks, k \in DynamicCells : DeleteChild(b, k)
    \/ \E s \in DOMAIN registrations, a \in Orders(registered_objs) :
          TimersPollCell(s, a)
    \/ \E s \in DOMAIN registrations, a \in Orders(registered_objs) :
          TimersPollState(s, a)
    \/ \E s \in DOMAIN registrations, d \in StreamData : PollStream(s, d)
    \/ \E command \in Commands : TimersDataReceived(command)
    \/ FlushTimer
    \/ ConnectionLost

SpecTimers == Init /\ [][NextTimers]_vars

\* ------------------------------------------------- persistence: operations
\* What a step that is not the named operation leaves behind.
NoOutputs ==
    /\ delivered' = 0
    /\ got' = <<>>
    /\ sync_resolved' = FALSE
    /\ started' = FALSE

\* set_value on a specimen: the subscribers hear of it in the next cycle.
SetValue(s, v) ==
    /\ v # specimenValue[s]
    /\ mutations < MaxMutations
    /\ specimenValue' = [specimenValue EXCEPT ![s] = v]
    /\ mutations' = mutations + 1
    /\ NoOutputs
    /\ UNCHANGED <<detector, calls, state_file, write_scheduled,
                   sync_waiting, defaults>>
    /\ UNCHANGED <<stream, audio>>

\* One notification cycle: the detector hears once of all that was set.
Advance ==
    /\ mutations > 0
    /\ Then(Notify(detector, Snapshot(specimenValue, "o")), LAMBDA r :
         /\ r.fired => calls < MaxCallbackCalls
         /\ detector' = [cache |-> r.cache, armed |-> r.armed]
         /\ calls' = IF r.fired THEN calls + 1 ELSE calls
         /\ Then(IF r.fired
                 THEN WriteLater(state_file, write_scheduled, r.cache)
                 ELSE [file |-> state_file, scheduled |-> write_scheduled],
                 LAMBDA w : /\ state_file' = w.file
                            /\ write_scheduled' = w.scheduled))
    /\ mutations' = 0
    /\ delivered' = mutations
    /\ got' = <<>>
    /\ sync_resolved' = FALSE
    /\ started' = FALSE
    /\ UNCHANGED <<specimenValue, sync_waiting, defaults>>
    /\ UNCHANGED <<stream, audio>>

\* get() called on the detector from outside the glue.
GetSnapshot ==
    /\ detector' = Get(detector, Snapshot(specimenValue, "o"))
    /\ got' = <<detector'.cache>>
    /\ delivered' = 0
    /\ sync_resolved' = FALSE
    /\ started' = FALSE
    /\ UNCHANGED <<specimenValue, mutations, calls, state_file,
                   write_scheduled, sync_waiting, defaults>>
    /\ UNCHANGED <<stream, audio>>

\* The delayed write call runs: the file is rewritten with what get()
\* returns, and the Deferred of sync() fires.
WriteTimer ==
    /\ write_scheduled > 0
    /\ write_scheduled' = write_scheduled - 1
    /\ detector' = Get(detector, Snapshot(specimenValue, "o"))
    /\ state_file' = Written(detector'.cache)
    /\ sync_resolved' = sync_waiting
    /\ sync_waiting' = FALSE
    /\ delivered' = 0
    /\ got' = <<>>
    /\ started' = FALSE
    /\ UNCHANGED <<specimenValue, mutations, calls, defaults>>
    /\ UNCHANGED <<stream, audio>>

\* sync(): a Deferred that fires when the next write has completed.
Sync ==
    /\ ~sync_waiting
    /\ sync_waiting' = TRUE
    /\ NoOutputs
    /\ UNCHANGED <<specimenValue, mutations, detector, calls, state_file,
                   write_scheduled, defaults>>
    /\ UNCHANGED <<stream, audio>>

\* The process ends and a fresh root object and glue are constructed over the
\* same file.
Restart(defs) ==
    /\ specimenValue' = Startup(state_file, defs)
    /\ detector' = NewDetector(Snapshot(specimenValue', "o"))
    /\ defaults' = defs
    /\ mutations' = 0
    /\ delivered' = 0
    /\ calls' = 0
    /\ got' = <<>>
    /\ write_scheduled' = 0
    /\ sync_waiting' = FALSE
    /\ sync_resolved' = FALSE
    /\ started' = TRUE
    /\ UNCHANGED state_file
    /\ UNCHANGED <<stream, audio>>

InitPersistence ==
    /\ InitStream
    /\ \E file \in InitialFiles, defs \in DefaultsChoices :
          StartsGlue(file, defs)
    /\ StartsAudio

NextPersistence ==
    \/ \E s \in Specimens, v \in Values : SetValue(s, v)
    \/ Advance
    \/ GetSnapshot
    \/ WriteTimer
    \/ Sync
    \/ \E defs \in DefaultsChoices : Restart(defs)

SpecPersistence == InitPersistence /\ [][NextPersistence]_vars

\* ------------------------------------------------------------ audio stream
\* The messages the block puts on the queue over the life of the stream, and
\* the length of the queue (gr.msg_queue(limit=100) in the code).
MaxMessages == 3
QueueLimit == 2

\* The payload of gr.message(): its length() is 0.
DummyMessage == <<>>

\* buf after a message that keeps only the latest payload.
Collect_Last(b, message) == message

\* buf after a message: "if message.length() > 0: buf += message.to_string()".
Collect(b, message) ==
    IF Len(message) > 0 THEN b \o message ELSE b

\* The block's audio sink puts a message on the queue it holds: samples, or
\* nothing at all; a full queue takes no message.
Produce(message) ==
    /\ attached
    /\ produced < MaxMessages
    /\ Len(queue) < QueueLimit
    /\ queue' = Append(queue, message)
    /\ produced' = produced + 1
    /\ UNCHANGED <<running, attached, reader, buf, thread_calls, audio_sent,
                   dequeued, lost>>
    /\ UNCHANGED <<stream, persistence>>

\* "while running[0]:" and "buf = ''".
ReadWhile ==
    /\ reader = "while"
    /\ reader' = IF running THEN "head" ELSE "returned"
    /\ buf' = IF running THEN <<>> ELSE buf
    /\ UNCHANGED <<queue, running, attached, thread_calls, audio_sent,
                   dequeued, produced, lost>>
    /\ UNCHANGED <<stream, persistence>>

\* "message = queue.delete_head()  # blocking call" and the lines after it.
ReadHead ==
    /\ reader = "head"
    /\ queue # <<>>
    /\ queue' = Tail(queue)
    /\ dequeued' = Append(dequeued, Head(queue))
    /\ buf' = Collect(buf, Head(queue))
    /\ reader' = "more"
    /\ UNCHANGED <<running, attached, thread_calls, audio_sent, produced,
                   lost>>
    /\ UNCHANGED <<stream, persistence>>

\* "while not queue.empty_p():" and its body; only this thread takes
\* messages off the queue, so the delete_head of the body never blocks.
ReadMore ==
    /\ reader = "more"
    /\ IF queue = <<>>
       THEN /\ reader' = "call"
            /\ UNCHANGED <<queue, dequeued, buf>>
       ELSE /\ queue' = Tail(queue)
            /\ dequeued' = Append(dequeued, Head(queue))
            /\ buf' = Collect(buf, Head(queue))
            /\ reader' = "more"
    /\ UNCHANGED <<running, attached, thread_calls, audio_sent, produced,
                   lost>>
    /\ UNCHANGED <<stream, persistence>>

\* "reactor.callFromThread(deliver, buf)".
ReadCall ==
    /\ reader = "call"
    /\ thread_calls' = Append(thread_calls, buf)
    /\ reader' = "while"
    /\ UNCHANGED <<queue, running, attached, buf, audio_sent, dequeued,
                   produced, lost>>
    /\ UNCHANGED <<stream, persistence>>

ReaderThread == ReadWhile \/ ReadHead \/ ReadMore \/ ReadCall

\* The reactor runs the oldest call of its thread call queue: __deliver.
Deliver ==
    /\ thread_calls # <<>>
    /\ audio_sent' = Append(audio_sent, Head(thread_calls))
    /\ thread_calls' = Tail(thread_calls)
    /\ UNCHANGED <<queue, running, attached, reader, buf, dequeued, produced,
                   lost>>
    /\ UNCHANGED <<stream, persistence>>

\* connectionLost, statement by statement, as the reader thread runs beside
\* it: "self._block.remove_audio_queue(self._queue)".
ConnectionLostRemove ==
    /\ lost = "no"
    /\ attached' = FALSE
    /\ lost' = "removed"
    /\ UNCHANGED <<queue, running, reader, buf, thread_calls, audio_sent,
                   dequeued, produced>>
    /\ UNCHANGED <<stream, persistence>>

\* "self.__running[0] = False".
ConnectionLostStop ==
    /\ lost = "removed"
    /\ running' = FALSE
    /\ lost' = "stopped"
    /\ UNCHANGED <<queue, attached, reader, buf, thread_calls, audio_sent,
                   dequeued, produced>>
    /\ UNCHANGED <<stream, persistence>>

\* connectionLost that inserts no message.
ConnectionLostInsert_Nothing ==
    /\ lost = "stopped"
    /\ lost' = "done"
    /\ UNCHANGED <<queue, running, attached, reader, buf, thread_calls,
                   audio_sent, dequeued, produced>>
    /\ UNCHANGED <<stream, persistence>>

\* "self._queue.insert_tail(gr.message())", which waits while the queue is
\* full.
ConnectionLostInsert ==
    /\ lost = "stopped"
    /\ Len(queue) < QueueLimit
    /\ queue' = Append(queue, DummyMessage)
    /\ lost' = "done"
    /\ UNCHANGED <<running, attached, reader, buf, thread_calls, audio_sent,
                   dequeued, produced>>
    /\ UNCHANGED <<stream, persistence>>

AudioConnectionLost ==
    ConnectionLostRemove \/ ConnectionLostStop \/ ConnectionLostInsert

InitAudio == Init

NextAudio ==
    \/ \E message \in {DummyMessage, <<produced + 1>>} : Produce(message)
    \/ ReadWhile
    \/ ReadHead
    \/ ReadMore
    \/ ReadCall
    \/ Deliver
    \/ ConnectionLostRemove
    \/ ConnectionLostStop
    \/ ConnectionLostInsert

SpecAudio == InitAudio /\ [][NextAudio]_vars

\* The reader thread gets to run while it can take a step, and so does the
\* reactor thread inside connectionLost.
SpecAudioFair ==
    /\ SpecAudio
    /\ WF_vars(ReaderThread)
    /\ WF_vars(AudioConnectionLost)

\* ------------------------------------------------------ the session's graph
Range(f) == { f[x] : x \in DOMAIN f }

RECURSIVE Flatten(_)
Flatten(frames) ==
    IF frames = <<>> THEN <<>>
    ELSE Head(frames).msgs \o Flatten(Tail(frames))

TextOnly(msgs) == SelectSeq(msgs, LAMBDA m : m[1] # "binary")

\* The (holder, key) pairs through which the stored previous values of the
\* Registrations in the serial table reference object o.
PathsIn(regs, serials, o) ==
    { p \in UNION { { <<s, k>> : k \in DOMAIN regs[s].previous_value } :
                      s \in { x \in serials : regs[x].value_is_references } } :
        regs[p[1]].previous_value[p[2]] = o }

LivePaths(o) == Cardinality(PathsIn(registrations, registered_serials, o))

\* The positions of msgs that hold a message with an op of ops.
Positions(msgs, ops) == { i \in 1..Len(msgs) : msgs[i][1] \in ops }

\* Registration s has sent the value its object has now.
Unchanged(s) ==
    /\ registrations[s].has_previous_value
    /\ registrations[s].previous_value =
         IF registrations[s].obj \in Blocks
         THEN [k \in blockState[registrations[s].obj] |-> k]
         ELSE Dict1(cellValue[registrations[s].obj])

\* ------------------------------------------------------------------ claims

\* C1 as stated: in an open session, for every object the number of register
\* messages minus the number of delete messages sent for it equals the number
\* of live paths (holder Registration, key) that reference it.
C1_BalanceEqualsPaths ==
    (~closed /\ failure = "none") =>
        \A o \in Objects : balance[o] = LivePaths(o)

\* C1, amended: in an open session, for every object the number of register
\* messages minus the number of delete messages sent for it is 1 while at
\* least one live path references it, however many, and 0 while none does; it
\* is 1 exactly for the objects other than the root cell that are in the
\* object table.
C1_BalanceIsOneWhileReferenced ==
    ~closed =>
        \A o \in Objects :
            /\ balance[o] = IF LivePaths(o) > 0 THEN 1 ELSE 0
            /\ balance[o] = IF o \in DOMAIN registered_objs /\ o # RootCell
                            THEN 1 ELSE 0

\* An object that two live paths reference, after some object was deleted.
C1_Witness ==
    /\ ~closed
    /\ deleted # {}
    /\ \E o \in Objects : LivePaths(o) = 2 /\ balance[o] = 1

\* C2: when a block cell's Registration s sends a changed value, replacing
\* block B, the step emits delete for B's serial exactly when no Registration
\* other than s still references B afterwards, and B leaves the object table
\* in exactly that case.
C2_OldBlockDeletedIffUnreferenced ==
    [][\A s \in registered_serials :
         (/\ registrations[s].obj \in BlockCells
          /\ registrations[s].value_is_references
          /\ \E i \in Positions(sent', {"value"}) : sent'[i][2] = s)
         => /\ (<<"delete", registered_objs[registrations[s].previous_value["value"]]>>
                  \in Range(sent'))
               <=> ({ p \in PathsIn(registrations', registered_serials',
                                    registrations[s].previous_value["value"]) :
                        p[1] # s } = {})
            /\ (registrations[s].previous_value["value"]
                  \notin DOMAIN registered_objs')
               <=> ({ p \in PathsIn(registrations', registered_serials',
                                    registrations[s].previous_value["value"]) :
                        p[1] # s } = {})]_vars

\* A block cell other than the root cell sent a new value and a delete
\* followed it.
C2_Witness ==
    \E i \in Positions(sent, {"value"}), j \in Positions(sent, {"delete"}) :
        /\ i < j
        /\ sent[i][2] # 0
        /\ registrations[sent[i][2]].obj \in BlockCells

\* C3: every serial a step announces in a register message is greater than
\* every serial assigned before it (so it differs from every serial announced
\* or deleted before), the serials of one step are announced in increasing
\* order, and no two objects of the object table share a serial.
C3_SerialsFresh ==
    [][/\ \A i \in Positions(sent', RegisterOps) :
            /\ sent'[i][2] > lastSerial
            /\ sent'[i][2] <= lastSerial'
            /\ sent'[i][2] \notin (announced \cup deleted)
            /\ \A j \in Positions(sent', RegisterOps) :
                  j < i => sent'[j][2] < sent'[i][2]
       /\ \A o1, o2 \in DOMAIN registered_objs' :
            o1 # o2 => registered_objs'[o1] # registered_objs'[o2]]_vars

\* An object whose Registration was deleted is registered again, under
\* another serial.
C3_Witness ==
    \E s \in registered_serials, d \in deleted :
        d # s /\ registrations[d].obj = registrations[s].obj

\* C4: _lookup_or_register of an object that is in the object table leaves
\* the session as it was: no Registration is made, no serial is assigned,
\* nothing is sent, no refcount moves, and the Registration it returns is the
\* one of the table.
C4_LookupRegisteredIsIdentity ==
    [](
        \A o \in DOMAIN registered_objs, a \in Orders(registered_objs) :
            LookupOrRegister(Session, World(a), o) = Session)

\* A block registered after construction that a second holder looked up: its
\* refcount is 2.
C4_Witness ==
    /\ ~closed
    /\ \E s \in registered_serials :
          /\ registrations[s].obj \in DynamicBlocks
          /\ registrations[s].refcount = 2
          /\ ~registrations[s].dead

\* C5: a Registration of the serial table whose refcount a step brings to
\* zero is, after the step, dead, named by a delete message of the step,
\* out of both tables and unsubscribed, with its stored value cleared; and if
\* the call returned, every object it referenced is either gone from the
\* object table or has a refcount equal to the live paths that reference it.
C5_SynchronousFinalization ==
    [][\A s \in registered_serials :
         (registrations[s].refcount > 0 /\ registrations'[s].refcount = 0)
         => /\ registrations'[s].dead
            /\ <<"delete", s>> \in Range(sent')
            /\ s \notin registered_serials'
            /\ s \notin Range(registered_objs')
            /\ ~registrations'[s].subscribed
            /\ ~registrations'[s].has_previous_value
            /\ registrations'[s].previous_value = NoneDict
            /\ failure' = "none" =>
                 \A o \in (IF registrations[s].value_is_references
                           THEN Range(registrations[s].previous_value)
                           ELSE {}) :
                    \/ o \notin DOMAIN registered_objs'
                    \/ registrations'[registered_objs'[o]].refcount =
                         Cardinality(PathsIn(registrations',
                                             registered_serials', o))]_vars

\* A block was finalized and the cell it referenced with it: the step sent
\* two delete messages and returned.
C5_Witness ==
    /\ failure = "none"
    /\ Cardinality(Positions(sent, {"delete"})) >= 2
    /\ \E i \in Positions(sent, {"delete"}) :
          /\ registrations[sent[i][2]].obj \in Blocks
          /\ registrations[sent[i][2]].dead
          /\ registrations[sent[i][2]].refcount = 0

\* C6: while the session is open, the root Registration holds serial 0 in
\* both tables, is subscribed and not dead, has never been decremented, and
\* no delete message has named serial 0.
C6_RootNeverCollected ==
    ~closed =>
        /\ 0 \in registered_serials
        /\ RootCell \in DOMAIN registered_objs
        /\ registered_objs[RootCell] = 0
        /\ registrations[0].obj = RootCell
        /\ registrations[0].refcount = 0
        /\ ~registrations[0].dead
        /\ registrations[0].subscribed
        /\ 0 \notin deleted

\* The session is open after objects were deleted and a command was answered.
C6_Witness ==
    /\ ~closed
    /\ deleted # {}
    /\ Positions(send_batch, {"done"}) # {}

\* C7: once connectionLost has run, both tables are empty and no
\* Registration is subscribed to the poller, whatever its refcount.
C7_ConnectionLostDropsAll ==
    closed =>
        /\ DOMAIN registered_objs = {}
        /\ registered_serials = {}
        /\ \A s \in DOMAIN registrations : ~registrations[s].subscribed

\* connectionLost has run over a Registration with refcount 2 that no delete
\* had named.
C7_Witness ==
    /\ closed
    /\ \E s \in DOMAIN registrations :
          /\ registrations[s].refcount = 2
          /\ ~registrations[s].dead
          /\ s \notin deleted

\* C8: for a subscribed, live Registration whose object has the value last
\* sent, the change callback sends nothing and moves no refcount; and a set
\* command that leaves a cell at the value last sent for it sends the done
\* message and nothing else.
C8_ResendSuppression ==
    [](
        (~closed /\ failure = "none") =>
            /\ \A s \in registered_serials, a \in Orders(registered_objs) :
                  (registrations[s].subscribed /\ Unchanged(s))
                  => SendNowIfNeeded(Session, World(a), s) = Session
            /\ \A s \in registered_serials, v \in 0..MaxCommandValue :
                  (/\ registrations[s].obj \in WritableCells
                   /\ registrations[s].previous_value = Dict1(Clamp(v)))
                  => DataReceivedResult(Session,
                                        World(CHOOSE a \in AddrChoices : TRUE),
                                        <<"set", s, v, 1>>).st
                       = Send1(Session, FALSE, <<"done", 1>>))

\* A set command was answered with the done message alone, and a block cell
\* and a block have sent their values.
C8_Witness ==
    /\ ~closed
    /\ failure = "none"
    /\ sent = << <<"done", 1>> >>
    /\ \E s \in registered_serials :
          registrations[s].obj \in Blocks /\ Unchanged(s)
    /\ \E s \in registered_serials :
          registrations[s].obj \in BlockCells /\ Unchanged(s)

\* C9: every step leaves the non-binary messages in order, each once, in the
\* frames it hands over followed by the batch; a step hands over at most one
\* text frame; and the flush timer hands over the whole batch as one frame and
\* leaves the batch empty.
C9_OneFramePerFlush ==
    [][/\ TextOnly(Flatten(wire')) \o send_batch'
            = send_batch \o TextOnly(sent')
       /\ Cardinality({ i \in 1..Len(wire') : ~wire'[i].binary }) <= 1
       /\ (delayed_calls' < delayed_calls) =>
            /\ send_batch' = <<>>
            /\ wire' = IF send_batch = <<>> THEN <<>>
                       ELSE << [binary |-> FALSE, msgs |-> send_batch] >>]_vars

\* The flush timer has handed over one frame of several messages.
C9_Witness ==
    /\ sent = <<>>
    /\ Len(wire) = 1
    /\ ~wire[1].binary
    /\ Len(wire[1].msgs) >= 2
    /\ send_batch = <<>>

\* C10: the frames a step hands over, followed by the batch it leaves, hold
\* the batch it found followed by the messages it sent, in that order; a
\* binary message is the last frame handed over, and the batch is empty
\* after it.
C10_BinaryKeepsOrder ==
    [][/\ Flatten(wire') \o send_batch' = send_batch \o sent'
       /\ \A i \in Positions(sent', {"binary"}) :
            /\ wire' # <<>>
            /\ wire'[Len(wire')] = [binary |-> TRUE, msgs |-> <<sent'[i]>>]
            /\ send_batch' = <<>>]_vars

\* A binary message found a batch waiting: the batch went out first.
C10_Witness ==
    /\ Len(wire) = 2
    /\ ~wire[1].binary
    /\ wire[2].binary

\* C11: at most one call of _flush is pending in the reactor at any time.
C11_AtMostOneFlushTimer == delayed_calls <= 1

\* C12: a set command on a writable cell of the serial table stores the
\* coerced value in the cell, then sends a value message carrying the cell's
\* actual value if that differs from the value stored as last sent, and then
\* exactly one done message, which is the last message of the call.
C12_SetEchoesThenDone ==
    [](
        (~closed /\ failure = "none") =>
            \A s \in registered_serials, v \in 0..MaxCommandValue :
                registrations[s].obj \in WritableCells =>
                    Then(DataReceivedResult(Session,
                                            World(CHOOSE a \in AddrChoices : TRUE),
                                            <<"set", s, v, 1>>),
                         LAMBDA r :
                           /\ r.w.value = [cellValue EXCEPT
                                             ![registrations[s].obj] = Clamp(v)]
                           /\ r.w.state = blockState
                           /\ r.st.failure = "none"
                           /\ r.st.sent =
                                (IF /\ registrations[s].has_previous_value
                                    /\ registrations[s].previous_value
                                         = Dict1(Clamp(v))
                                 THEN <<>>
                                 ELSE << <<"value", s, ScalarPayload(Clamp(v))>> >>)
                                \o << <<"done", 1>> >>))

\* A set command was answered with the value echo and then the done message.
C12_Witness ==
    /\ ~closed
    /\ failure = "none"
    /\ Len(sent) = 2
    /\ sent[1][1] = "value"
    /\ registrations[sent[1][2]].obj \in WritableCells
    /\ sent[1][3] = ScalarPayload(cellValue[registrations[sent[1][2]].obj])
    /\ sent[2] = <<"done", 1>>

\* C13: a set command that names a serial not in the serial table, or a
\* Registration whose object is no cell, is ignored: no exception leaves
\* dataReceived, nothing is sent, and the tables, the Registrations, the
\* batch and the cells are as they were.
C13_ProtocolErrorsIgnored ==
    [][\A command \in Commands :
         (/\ command[1] = "set"
          /\ \/ command[2] \notin registered_serials
             \/ registrations[command[2]].obj \notin Cells
          /\ DataReceived(command))
         => /\ failure' = "none"
            /\ sent' = <<>>
            /\ UNCHANGED <<registrations, registered_objs,
                           registered_serials, lastSerial, send_batch,
                           cellValue>>]_vars

\* The delete messages among msgs, in order.
Deletes(msgs) == SelectSeq(msgs, LAMBDA m : m[1] = "delete")

\* C14: from one state, one change callback sends the same sequence of
\* delete messages whichever order sort() gives the released objects.
C14_DeterministicDeletes ==
    (~closed /\ failure = "none") =>
        \A s \in registered_serials, a1, a2 \in AddrChoices :
            registrations[s].subscribed =>
                Deletes(SendNowIfNeeded(Session, World(a1), s).sent)
                  = Deletes(SendNowIfNeeded(Session, World(a2), s).sent)

C16_OneCallbackPerCycle ==
    [][/\ (Advance /\ Snapshot(specimenValue, "o") # detector.cache)
            => calls' = calls + 1
       /\ (\E s \in Specimens, v \in Values : SetValue(s, v))
            => calls' = calls]_vars

\* C16 amended: a notification cycle invokes the callback exactly once if
\* the state differs from the cached Snapshot and no callback was invoked
\* since the last get(), and not at all otherwise, however many set_value
\* calls it delivers; set_value itself never invokes it.
C16_OneCallbackPerCycleWhileArmed ==
    [][/\ Advance =>
            calls' = IF detector.armed /\ Snapshot(specimenValue, "o") # detector.cache
                     THEN calls + 1 ELSE calls
       /\ (\E s \in Specimens, v \in Values : SetValue(s, v))
            => /\ calls' = calls
               /\ UNCHANGED <<detector, write_scheduled>>]_vars

\* A cycle has delivered two set_value calls and invoked the callback once.
C16_Witness == delivered = 2 /\ calls = 1 /\ ~detector.armed

C18_RoundTripAfterSync ==
    sync_resolved =>
        /\ state_file.exists
        /\ state_file.content = Snapshot(specimenValue, "o")
        /\ \A defs \in DefaultsChoices :
              Startup(state_file, defs) = specimenValue

\* sync() has fired in a session whose detector has reported a change, with
\* cells that hold other values than a fresh object's.
C18_Witness ==
    /\ sync_resolved
    /\ calls > 0
    /\ delivered = 0
    /\ specimenValue # FreshValues

\* C19: only the delayed write call rewrites the file: set_value, the
\* notification cycle and every other step leave the file, and so what a
\* fresh session over it would hold, as they were.
C19_WriteIsDelayed ==
    [][/\ state_file' # state_file => WriteTimer
       /\ (\/ \E s \in Specimens, v \in Values : SetValue(s, v)
           \/ Advance)
            => \A defs \in DefaultsChoices :
                   Startup(state_file', defs) = Startup(state_file, defs)]_vars

\* A write is scheduled for a change that the file does not hold yet: a
\* fresh session over the file would not see the value set.
C19_Witness ==
    /\ write_scheduled > 0
    /\ calls > 0
    /\ Startup(state_file, defaults) # specimenValue
    /\ ReadFile(state_file) # Snapshot(specimenValue, "o")

\* C20: right after construction each cell holds the value the file gives
\* for its key, else the value the defaults give, else the value of a fresh
\* object; the block cell's mapping is taken whole from the file, else from
\* the defaults; a missing file gives nothing and keys naming no cell change
\* nothing.
C20_DefaultsBeneathPersisted ==
    started =>
        /\ specimenValue["o"] =
              IF state_file.exists /\ "value" \in DOMAIN state_file.content
              THEN state_file.content["value"]
              ELSE IF "value" \in DOMAIN defaults THEN defaults["value"]
              ELSE 0
        /\ specimenValue["n"] =
              IF state_file.exists /\ "block" \in DOMAIN state_file.content
              THEN (IF "value" \in DOMAIN state_file.content["block"]
                    THEN state_file.content["block"]["value"] ELSE 0)
              ELSE IF "block" \in DOMAIN defaults
              THEN (IF "value" \in DOMAIN defaults["block"]
                    THEN defaults["block"]["value"] ELSE 0)
              ELSE 0

\* A glue was just constructed over a file and defaults that both give the
\* cell value, differently, and hold a key that names no cell.
C20_Witness ==
    /\ started
    /\ state_file.exists
    /\ "value" \in DOMAIN state_file.content
    /\ "value" \in DOMAIN defaults
    /\ state_file.content["value"] # defaults["value"]
    /\ "gone" \in DOMAIN state_file.content

\* C21: at most one delayed write call is pending at any time; a change the
\* detector reports while one is pending schedules no other and writes
\* nothing; the write call writes the Snapshot of the root object as it is
\* when the call runs, resolves the sync() that waits for it, and leaves no
\* call pending; and the file is rewritten by no other step.
C21_WriteCoalescing ==
    [][/\ write_scheduled' <= 1
       /\ (Advance /\ write_scheduled > 0) =>
             /\ write_scheduled' = write_scheduled
             /\ state_file' = state_file
       /\ WriteTimer =>
             /\ state_file' = Written(Snapshot(specimenValue, "o"))
             /\ write_scheduled' = 0
             /\ sync_resolved' = sync_waiting
             /\ ~sync_waiting'
       /\ state_file' # state_file => (WriteTimer /\ write_scheduled = 1)]_vars

\* The callback has just fired for the second time and the file has never
\* been written: the write the first callback scheduled was pending, and one
\* write is pending now.
C21_Witness ==
    /\ calls = 2
    /\ write_scheduled = 1
    /\ delivered > 0
    /\ ~detector.armed
    /\ state_file = NoFile

\* The buffers of bufs, one after the other.
RECURSIVE Concat(_)
Concat(bufs) ==
    IF bufs = <<>> THEN <<>> ELSE Head(bufs) \o Concat(Tail(bufs))

\* What the reader thread has collected and not yet handed off.
InHand == IF reader \in {"head", "more", "call"} THEN buf ELSE <<>>

\* C22: the buffers delivered, then those handed off and waiting in the
\* reactor, then what the reader holds, are together the payloads taken off
\* the queue, in queue order; only the reactor's call of deliver passes a
\* buffer to send, and it passes the oldest one handed off; the reader hands
\* off only by callFromThread, the buffer it collected, after it found the
\* queue empty.
C22_HandoffCoalescing ==
    [][/\ Concat(audio_sent') \o Concat(thread_calls') \o InHand'
             = Concat(dequeued')
       /\ audio_sent' # audio_sent =>
             /\ thread_calls # <<>>
             /\ audio_sent' = Append(audio_sent, Head(thread_calls))
             /\ thread_calls' = Tail(thread_calls)
             /\ UNCHANGED <<reader, buf, queue, dequeued>>
       /\ (reader' # reader \/ buf' # buf \/ dequeued' # dequeued) =>
             audio_sent' = audio_sent
       /\ (reader = "call" /\ reader' # reader) =>
             /\ thread_calls' = Append(thread_calls, buf)
             /\ \E n \in 1..Len(dequeued) :
                   buf = Concat(SubSeq(dequeued, n, Len(dequeued)))
       /\ (reader' = "call" /\ reader # "call") =>
             /\ queue = <<>>
             /\ queue' = <<>>]_vars

\* A buffer that holds the payloads of two messages has been delivered, and
\* a message without payload was taken off the queue on the way.
C22_Witness ==
    /\ \E i \in DOMAIN audio_sent : Len(audio_sent[i]) >= 2
    /\ \E i \in DOMAIN dequeued : dequeued[i] = <<>>
    /\ lost = "no"

\* C23: once connectionLost of the audio stream has begun, the reader thread
\* returns from its loop.
C23_ReaderTerminates ==
    (lost # "no") ~> (reader = "returned")

\* The reader thread has returned though the block never put a message on
\* the queue: it was waiting on the empty queue and the one message it took
\* is the dummy of connectionLost.
C23_Witness ==
    /\ reader = "returned"
    /\ produced = 0
    /\ dequeued = <<DummyMessage>>
    /\ lost = "done"

\* The serials a value message carries as its value.
Referenced(m) == Range(m[3].refs)

\* The messages msgs, sent when the serials of known had been registered and
\* those of gone deleted, reference only serials registered before and not
\* deleted, and hold registers, then values, then deletes.
WireOrdered(known, gone, msgs) ==
    \A i \in Positions(msgs, {"value"}) :
        /\ \A r \in Referenced(msgs[i]) :
              /\ \/ r \in known
                 \/ \E j \in Positions(msgs, RegisterOps) :
                       j < i /\ msgs[j][2] = r
              /\ r \notin gone
              /\ \A k \in Positions(msgs, {"delete"}) : msgs[k][2] # r
        /\ \A j \in Positions(msgs, RegisterOps) :
              msgs[j][2] \in Referenced(msgs[i]) => j < i
        /\ \A k \in Positions(msgs, {"delete"}) : i < k

\* C24: every serial a value message carries was registered by an earlier
\* message and is named by no delete message before it (and by none of the
\* same handler's run after it); in the messages of one handler's run the
\* register messages of the serials a value message carries come before it
\* and every delete message comes after every value message.
C24_RegisterBeforeReference ==
    /\ WireOrdered({}, {}, sent)
    /\ [][WireOrdered(announced, deleted, sent')]_vars

\* One update has registered an object, sent the value that carries its
\* serial, and deleted an object it released.
C24_Witness ==
    \E j \in Positions(sent, RegisterOps), i \in Positions(sent, {"value"}),
       k \in Positions(sent, {"delete"}) :
        /\ j < i
        /\ i < k
        /\ sent[j][2] \in Referenced(sent[i])
        /\ failure = "none"

\* The positions of msgs after j that hold a value message of serial r.
ValuesAfter(msgs, j, r) ==
    { i \in Positions(msgs, {"value"}) : j < i /\ msgs[i][2] = r }

\* C25 as stated: every register message of a handler's run is followed, in
\* the same run, by a value message of the serial it registers.
C25_InitialValueMessage ==
    \A j \in Positions(sent, RegisterOps) :
        ValuesAfter(sent, j, sent[j][2]) # {}

\* C25, amended: after the constructor and after every handler's run, each
\* Registration the run created has had its first value sent if it is a
\* block or a block cell, and none if it is a plain cell or a stream cell;
\* a plain cell's current value is recorded as sent, a stream cell holds
\* nothing.
C25_InitialSnapshotByKind ==
    \A j \in Positions(sent, RegisterOps) :
        /\ (registrations[sent[j][2]].obj \in Blocks \cup BlockCells) =>
              /\ Cardinality(ValuesAfter(sent, j, sent[j][2])) = 1
              /\ registrations[sent[j][2]].has_previous_value
              /\ registrations[sent[j][2]].value_is_references
              /\ Unchanged(sent[j][2])
        /\ (registrations[sent[j][2]].obj \in ScalarCells) =>
              /\ ValuesAfter(sent, j, sent[j][2]) = {}
              /\ registrations[sent[j][2]].has_previous_value
              /\ ~registrations[sent[j][2]].value_is_references
              /\ Unchanged(sent[j][2])
        /\ (registrations[sent[j][2]].obj \in StreamCells) =>
              /\ ValuesAfter(sent, j, sent[j][2]) = {}
              /\ ~registrations[sent[j][2]].has_previous_value

\* A run after the constructor's has registered the block Y and its plain
\* cell Yg.
C25_Witness ==
    /\ \E j \in Positions(sent, {"register_cell"}) :
          registrations[sent[j][2]].obj = "Yg"
    /\ \E j \in Positions(sent, {"register_block"}) :
          registrations[sent[j][2]].obj = "Y"
    /\ failure = "none"

\* The objects the stored previous values of the Registrations of objs refer
\* to.
HeldBy(objs) ==
    UNION { Range(registrations[registered_objs[o]].previous_value) :
              o \in { x \in objs \cap DOMAIN registered_objs :
                        registrations[registered_objs[x]].value_is_references } }

\* The objects reachable from objs through the values the registry has
\* last sent.
RECURSIVE ReachableFrom(_)
ReachableFrom(objs) ==
    IF HeldBy(objs) \subseteq objs THEN objs
    ELSE ReachableFrom(objs \cup HeldBy(objs))

\* C26: in an open session in which no handler has raised, the objects in
\* the object table are exactly those reachable from the session's root
\* cell through the values last sent.
C26_RegistryTracksReachability ==
    (~closed /\ failure = "none") =>
        DOMAIN registered_objs = ReachableFrom({RootCell})

\* C27: between handlers, the refcount of every Registration in the serial
\* table other than the root's is the number of (Registration, key) entries
\* whose stored references name its object, and at least 1; the root's is 0.
C27_RefcountEqualsInDegree ==
    ~closed =>
        \A s \in registered_serials :
            IF registrations[s].obj = RootCell
            THEN registrations[s].refcount = 0
            ELSE /\ registrations[s].refcount =
                      LivePaths(registrations[s].obj)
                 /\ registrations[s].refcount >= 1

\* C28: no callback of the poller ends in an exception: no increment or
\* decrement meets a dead Registration, no lookup of a referenced object in
\* the object table fails, and set_previous finds every object registered.
C28_FailurePathsUnreachable ==
    [][(\E s \in DOMAIN registrations, a \in Orders(registered_objs) :
           PollCell(s, a) \/ PollState(s, a))
         => failure' = "none"]_vars

\* The callback Registration s subscribed with, called by the poller in
\* session state st, sends nothing and leaves the session as it is.
Ignores(st, w, s) ==
    IF st.regs[s].obj \in StreamCells
    THEN \A d \in StreamData : ListenBinaryStream(st, s, d) = st
    ELSE IF st.regs[s].obj \in Cells
    THEN ListenCell(st, w, s) = st
    ELSE ListenState(st, w, s, StateOf(w, st.regs[s].obj)) = st

\* No message of msgs that carries a value or stream data is of a serial of
\* gone, or of one that a delete message earlier in msgs names.
SilentOnWire(gone, msgs) ==
    \A i \in Positions(msgs, {"value", "binary"}) :
        /\ msgs[i][2] \notin gone
        /\ \A k \in Positions(msgs, {"delete"}) :
              msgs[k][2] = msgs[i][2] => i < k

\* Every Registration a delete message has named is dead, unsubscribed and
\* out of the serial table, and its callback ignores a notification; and a
\* stream cell's Registration, once released by its only holder, is deleted
\* and ignores the stream's data.
DeletedAreSilent ==
    /\ \A s \in deleted :
          /\ registrations[s].dead
          /\ ~registrations[s].subscribed
          /\ s \notin registered_serials
          /\ \A a \in AddrChoices : Ignores(Session, World(a), s)
    /\ \A s \in registered_serials :
          (/\ registrations[s].obj \in StreamCells
           /\ registrations[s].refcount = 1
           /\ failure = "none")
          => \A a \in AddrChoices :
               Then(DecRefcountAndMaybeNotify(Session, World(a), s),
                    LAMBDA st1 : /\ st1.sent = << <<"delete", s>> >>
                                 /\ st1.regs[s].dead
                                 /\ ~st1.regs[s].subscribed
                                 /\ Ignores(st1, World(a), s))

\* C29: no handler sends a value message or stream data of a serial that a
\* delete message has named, in an earlier run or earlier in its own; and a
\* deleted Registration is dead and unsubscribed, and a notification that
\* still reaches its callback is ignored.
C29_SilenceAfterDelete ==
    /\ []DeletedAreSilent
    /\ [][SilentOnWire(deleted, sent')]_vars

\* The block cell Xd was deleted in an earlier run, and the run just ended
\* has sent a value.
C29_Witness ==
    /\ \E s \in deleted :
          /\ registrations[s].obj = "Xd"
          /\ s \notin SerialsNamed(sent, {"delete"})
    /\ Positions(sent, {"value"}) # {}
    /\ failure = "none"

\* A call of _flush is pending for the batch: __batch_delay holds it and the
\* reactor has not run it yet.
FlushScheduled == batch_delay = "DelayedCall" /\ delayed_calls >= 1

\* C30: while the batch holds a message a flush is scheduled; the flush
\* call that finds messages hands all of them over and leaves none; and no
\* step hands over a frame without a message, so a flush of the empty batch
\* hands over nothing.
C30_NoStrandedMessages ==
    /\ [](send_batch # <<>> => FlushScheduled)
    /\ [][/\ \A i \in DOMAIN wire' : wire'[i].msgs # <<>>
          /\ (delayed_calls' < delayed_calls) =>
                /\ Flatten(wire') = send_batch
                /\ send_batch' = <<>>
                /\ send_batch = <<>> => wire' = <<>>]_vars

\* A handler that ran after the constructor has left several messages in
\* the batch, and one flush call is pending for them.
C30_Witness ==
    /\ Len(send_batch) >= 2
    /\ sent = send_batch
    /\ lastSerial > 6
    /\ delayed_calls = 1
    /\ ~closed

====
